---- MODULE Spec2Model ----
(***************************************************************************)
(* Model of the EFT viewer backend (src/server.py): the EBTS validation    *)
(* engine validate_eft, the image payload classification of                *)
(* extract_fingerprint_images, and the working-directory handling of       *)
(* parse_eft_metadata / extract_fingerprint_images.                        *)
(*                                                                         *)
(* Python values are modelled as follows:                                  *)
(*   dict            a function whose DOMAIN is the set of keys present    *)
(*   list            a sequence                                            *)
(*   set             a set; sorted(set) is SortedSeq(set)                  *)
(*   None            the string NoneVal                                    *)
(*   transaction type strings: sequences of one-character strings, so that *)
(*                   str.upper() is computed character by character        *)
(*   f-string message lines: a record of the fixed text and its arguments  *)
(*   field values of the parser: sequences of one-character strings, so    *)
(*                   that strip(), int() and the format decoders are       *)
(*                   computed character by character                       *)
(***************************************************************************)
EXTENDS Integers, Sequences, FiniteSets, TLC

VARIABLES
    EBTS_REQUIREMENTS,  \* the policy table (module global, server.py:175)
    metadata,           \* the dict handed to validate_eft
    validation,         \* the report validate_eft returned
    pc,                 \* "parsed" before validate_eft ran, "validated" after
    tmp_files,          \* extract_fingerprint_images: contents of the sorted fld_*.tmp
    next_file,          \* extract_fingerprint_images: index of the next tmp_file
    images,             \* extract_fingerprint_images: the list it returns
    cwd,                \* the process's working directory (os.getcwd / os.chdir)
    dir_files,          \* per directory: fld_*.tmp name -> the call whose file it holds
    call,               \* per concurrent call: its function, file and locals
    call_pc,            \* per concurrent call: the statement it is at
    output,             \* parse_eft_metadata: the lines of an2ktool's output
    next_line           \* parse_eft_metadata: index of the next line of output

validationVars == <<EBTS_REQUIREMENTS, metadata, validation, pc>>
imageVars == <<tmp_files, next_file, images>>
callVars == <<cwd, dir_files, call, call_pc>>
parseVars == <<output, next_line>>
vars == <<validationVars, imageVars, callVars, parseVars>>

NoneVal == "None"

\* ---------------------------------------------------------------- helpers

\* dict.get(key, default)
Get(d, k, default) == IF k \in DOMAIN d THEN d[k] ELSE default

\* the empty dict {}
EmptyDict == [k \in {} |-> ""]

Min(S) == CHOOSE x \in S : \A y \in S : x <= y

\* sorted(S) for a set of integers
RECURSIVE SortedSeq(_)
SortedSeq(S) == IF S = {} THEN <<>> ELSE <<Min(S)>> \o SortedSeq(S \ {Min(S)})

Range(s) == {s[i] : i \in DOMAIN s}

\* str.upper(), on the characters the transaction types are drawn from
UpperChar(c) ==
    CASE c = "f" -> "F"
      [] c = "a" -> "A"
      [] c = "u" -> "U"
      [] c = "c" -> "C"
      [] c = "r" -> "R"
      [] OTHER -> c

Upper(s) == [i \in DOMAIN s |-> UpperChar(s[i])]

\* ---------------------------------------------------------------- tables

FINGER_POSITION_NAMES ==
    [p \in 0..15 |->
        CASE p = 0 -> "Unknown"
          [] p = 1 -> "Right Thumb"
          [] p = 2 -> "Right Index"
          [] p = 3 -> "Right Middle"
          [] p = 4 -> "Right Ring"
          [] p = 5 -> "Right Little"
          [] p = 6 -> "Left Thumb"
          [] p = 7 -> "Left Index"
          [] p = 8 -> "Left Middle"
          [] p = 9 -> "Left Ring"
          [] p = 10 -> "Left Little"
          [] p = 11 -> "Plain Right Thumb"
          [] p = 12 -> "Plain Left Thumb"
          [] p = 13 -> "Plain Right Four"
          [] p = 14 -> "Plain Left Four"
          [] OTHER -> "Plain Thumbs (Both)"]

FAUF == <<"F", "A", "U", "F">>

RequiredDemographicsFAUF ==
    <<"name", "dob", "sex", "race", "height", "weight", "eyes", "hair">>

OptComplete ==
    [name |-> "Complete FD-258 (Rolled + Slaps)",
     required |-> <<1, 2, 3, 4, 5, 6, 7, 8, 9, 10, 13, 14, 15>>]

OptRolled ==
    [name |-> "Rolled Prints Only",
     required |-> <<1, 2, 3, 4, 5, 6, 7, 8, 9, 10>>]

OptSlap ==
    [name |-> "Flat/Slap Impressions Only",
     required |-> <<13, 14, 15>>]

\* the table as the source defines it: one key, "FAUF"
EbtsRequirementsSource ==
    [k \in {FAUF} |->
        [required_demographics |-> RequiredDemographicsFAUF,
         fingerprint_options |-> <<OptComplete, OptRolled, OptSlap>>]]

\* ---------------------------------------------------------------- validate_eft

\* one line of validation["messages"]: the f-string's text and its arguments
Msg(text, n, name) == [text |-> text, n |-> n, name |-> name]

\* FINGER_POSITION_NAMES.get(pos, f"Position {pos}"), server.py:253
MissingEntry(pos) ==
    [position |-> pos,
     name |-> IF pos \in DOMAIN FINGER_POSITION_NAMES
              THEN FINGER_POSITION_NAMES[pos] ELSE "Position"]

\* the warning line of server.py:265
WarningEntry(pos) ==
    [text |-> "Extra fingerprint at position",
     position |-> pos,
     name |-> IF pos \in DOMAIN FINGER_POSITION_NAMES
              THEN FINGER_POSITION_NAMES[pos] ELSE "Unknown"]

\* txn_type = metadata.get("transaction", {}).get("type", "").upper()
TxnType(m) == Upper(Get(Get(m, "transaction", EmptyDict), "type", <<>>))

\* present_positions, server.py:219-222
PresentPositions(m) ==
    {fp.position : fp \in Range(Get(m, "fingerprint_records", <<>>))}

\* Requirements without the default of server.py:225: EBTS_REQUIREMENTS.get(
\* txn_type, {})
RequirementsNoFallback(txn_type) == Get(EBTS_REQUIREMENTS, txn_type, EmptyDict)

\* EBTS_REQUIREMENTS.get(txn_type, EBTS_REQUIREMENTS.get("FAUF"))
Requirements(txn_type) ==
    Get(EBTS_REQUIREMENTS, txn_type, EBTS_REQUIREMENTS[FAUF])

\* missing = required - present_positions
Missing(option, present) == Range(option.required) \ present

\* OptionLoop without the break of server.py:242: a later satisfied option
\* overwrites the match
RECURSIVE OptionLoopNoBreak(_, _, _, _)
OptionLoopNoBreak(options, i, present, st) ==
    IF i > Len(options) THEN st
    ELSE LET missing == Range(options[i].required) \ present IN
         IF Cardinality(missing) = 0
         THEN OptionLoopNoBreak(options, i + 1, present,
                  [is_valid |-> TRUE, best_match |-> i, best_missing |-> {}])
         ELSE IF ~st.is_valid
                 /\ (st.best_match = 0
                     \/ Cardinality(missing) < Cardinality(st.best_missing))
         THEN OptionLoopNoBreak(options, i + 1, present,
                  [is_valid |-> FALSE, best_match |-> i,
                   best_missing |-> missing])
         ELSE OptionLoopNoBreak(options, i + 1, present, st)

\* OptionLoop with <= for < at server.py:243: on a tie the later option wins
RECURSIVE OptionLoopTieLast(_, _, _, _)
OptionLoopTieLast(options, i, present, st) ==
    IF i > Len(options) THEN st
    ELSE LET missing == Range(options[i].required) \ present IN
         IF Cardinality(missing) = 0
         THEN [is_valid |-> TRUE, best_match |-> i, best_missing |-> {}]
         ELSE IF st.best_match = 0
                 \/ Cardinality(missing) <= Cardinality(st.best_missing)
         THEN OptionLoopTieLast(options, i + 1, present,
                  [is_valid |-> FALSE, best_match |-> i,
                   best_missing |-> missing])
         ELSE OptionLoopTieLast(options, i + 1, present, st)

\* The option loop of server.py:231-245.  st carries is_valid, the index of
\* best_match (0 for None) and best_missing (a set; it is only counted and
\* sorted afterwards).
RECURSIVE OptionLoop(_, _, _, _)
OptionLoop(options, i, present, st) ==
    IF i > Len(options) THEN st
    ELSE LET missing == Missing(options[i], present) IN
         IF Cardinality(missing) = 0
         THEN [is_valid |-> TRUE, best_match |-> i, best_missing |-> {}]
         ELSE IF st.best_match = 0
                 \/ Cardinality(missing) < Cardinality(st.best_missing)
         THEN OptionLoop(options, i + 1, present,
                         [is_valid |-> FALSE, best_match |-> i,
                          best_missing |-> missing])
         ELSE OptionLoop(options, i + 1, present, st)

\* all_required, server.py:258-260
AllRequired(options) ==
    UNION {Range(options[i].required) : i \in DOMAIN options}

\* ExtraPositions with the operands of server.py:262 swapped
ExtraPositionsSwapped(options, present) == AllRequired(options) \ present

\* extra_positions = present_positions - all_required
ExtraPositions(options, present) == present \ AllRequired(options)

\* Truthy testing only for the empty string: an absent key counts as present
TruthyAbsentAccepted(demographics, field) ==
    field \notin DOMAIN demographics \/ Len(demographics[field]) > 0

\* demographics.get(field) is truthy: the key is there and the string is not
\* empty (a string of the inputs or a character sequence of the parser)
Truthy(demographics, field) ==
    field \in DOMAIN demographics /\ Len(demographics[field]) > 0

RECURSIVE SelectSeq2(_, _, _)
SelectSeq2(s, demographics, want) ==
    IF s = <<>> THEN <<>>
    ELSE (IF Truthy(demographics, Head(s)) = want THEN <<Head(s)>> ELSE <<>>)
         \o SelectSeq2(Tail(s), demographics, want)

\* IsValid without the downgrade of server.py:279-280
IsValidNoDowngrade(fp_valid, demo_missing) == fp_valid

\* is_valid after the demographics check: set by a satisfied option
\* (server.py:237), downgraded when a required demographic is missing
\* (server.py:277-280)
IsValid(fp_valid, demo_missing) == fp_valid /\ demo_missing = <<>>

\* Messages with the verdict appended instead of inserted at index 0
MessagesVerdictLast(is_valid, fp_msgs, demo_msgs) ==
    fp_msgs \o demo_msgs \o
    <<IF is_valid THEN Msg("FILE IS VALID", 0, "")
      ELSE Msg("FILE IS INCOMPLETE", 0, "")>>

\* messages: the option line and the demographics line in the order they were
\* appended, the verdict inserted at index 0 (server.py:285-288)
Messages(is_valid, fp_msgs, demo_msgs) ==
    <<IF is_valid THEN Msg("FILE IS VALID", 0, "")
      ELSE Msg("FILE IS INCOMPLETE", 0, "")>> \o fp_msgs \o demo_msgs

validate_eft(m) ==
    LET txn_type     == TxnType(m)
        present      == PresentPositions(m)
        requirements == Requirements(txn_type)
        options      == Get(requirements, "fingerprint_options", <<>>)
        loop         == OptionLoop(options, 1, present,
                            [is_valid |-> FALSE, best_match |-> 0,
                             best_missing |-> {}])
        fp_valid     == loop.is_valid
        incomplete   == ~fp_valid /\ loop.best_match # 0
        best_name    == options[loop.best_match].name
        match_type   == IF fp_valid THEN best_name
                        ELSE IF incomplete
                        THEN "Incomplete - closest to " \o best_name
                        ELSE NoneVal
        fp_msgs      == IF fp_valid
                        THEN <<Msg("File contains valid {name}", 0, best_name)>>
                        ELSE IF incomplete
                        THEN <<Msg("Missing {n} fingerprint(s) for {name}",
                                   Cardinality(loop.best_missing), best_name)>>
                        ELSE <<>>
        fp_missing   == IF incomplete
                        THEN [i \in 1..Cardinality(loop.best_missing) |->
                                 MissingEntry(SortedSeq(loop.best_missing)[i])]
                        ELSE <<>>
        extra        == ExtraPositions(options, present)
        warnings     == [i \in 1..Cardinality(extra) |->
                            WarningEntry(SortedSeq(extra)[i])]
        demographics == Get(m, "demographics", EmptyDict)
        required_demo == Get(requirements, "required_demographics", <<>>)
        demo_present == SelectSeq2(required_demo, demographics, TRUE)
        demo_missing == SelectSeq2(required_demo, demographics, FALSE)
        demo_msgs    == IF demo_missing # <<>>
                        THEN <<Msg("Missing {n} demographic field(s)",
                                   Len(demo_missing), "")>>
                        ELSE <<Msg("All required demographic fields present",
                                   0, "")>>
        is_valid     == IsValid(fp_valid, demo_missing)
    IN  [is_valid |-> is_valid,
         transaction_type |-> txn_type,
         fingerprints_present |-> Get(m, "fingerprint_records", <<>>),
         fingerprints_missing |-> fp_missing,
         demographics_present |-> demo_present,
         demographics_missing |-> demo_missing,
         match_type |-> match_type,
         messages |-> Messages(is_valid, fp_msgs, demo_msgs),
         warnings |-> warnings]

\* ---------------------------------------------------------------- inputs

\* Bounds of the inputs drawn by Init.
MaxRolledAbsent == 3     \* rolled positions 1..10 missing from a big input
MaxExtra == 1            \* positions outside every required set
MaxDemoMissing == 2      \* required demographics that are "" or absent
MaxDemoPresent == 1      \* demographics present in a nearly empty dict

\* the documented position codes and one code beyond them
Positions == DOMAIN FINGER_POSITION_NAMES \cup {16}

\* a fingerprint_records entry as parse_eft_metadata builds it, server.py:135-138
FingerprintRecord(fp) ==
    [position |-> fp,
     name |-> IF fp \in DOMAIN FINGER_POSITION_NAMES
              THEN FINGER_POSITION_NAMES[fp] ELSE "Unknown ({fp})"]

\* the records of the positions P, in ascending order
RecordsOf(P) ==
    [i \in 1..Cardinality(P) |-> FingerprintRecord(SortedSeq(P)[i])]

RolledPositions == 1..10
SlapPositions == {13, 14, 15}
OtherPositions == Positions \ (RolledPositions \cup SlapPositions)

\* present sets around the FAUF options: nearly all or none of the rolled
\* prints, any of the slaps, a few positions no option asks for
PresentSets ==
    {R \cup S \cup E :
        R \in {X \in SUBSET RolledPositions :
                  \/ Cardinality(RolledPositions \ X) <= MaxRolledAbsent
                  \/ X = {}},
        S \in SUBSET SlapPositions,
        E \in {X \in SUBSET OtherPositions : Cardinality(X) <= MaxExtra}}

\* the present sets the options and the spec's examples name
KeyPresentSets ==
    { {}, {13, 14, 15}, 1..10, (1..10) \cup {13, 14, 15},
      (1..10) \cup {13, 14}, (1..10) \cup {11}, (1..8) \cup {13},
      (1..10) \cup {11, 13, 14, 15}, {11}, (1..9) \cup {14, 15} }

DemoFields == Range(RequiredDemographicsFAUF)

AllDemoDicts == UNION {[S -> {"", "x"}] : S \in SUBSET DemoFields}

DemoDicts ==
    {d \in AllDemoDicts :
        \/ Cardinality({f \in DemoFields : f \notin DOMAIN d \/ d[f] = ""})
              <= MaxDemoMissing
        \/ /\ Cardinality(DOMAIN d) <= MaxDemoPresent
           /\ \A f \in DOMAIN d : d[f] # ""}

FullDemo == [f \in DemoFields |-> "x"]
NoWeight == [f \in DemoFields \ {"weight"} |-> "x"]
EmptyHair == [f \in DemoFields |-> IF f = "hair" THEN "" ELSE "x"]

KeyDemoDicts == {FullDemo, NoWeight, EmptyHair, EmptyDict}

\* transaction types: the key itself, spellings upper() maps to it, others
TxnTypes ==
    { FAUF, <<"f", "a", "u", "f">>, <<"F", "a", "U", "f">>,
      <<>>, <<"F", "A", "U">>, <<"F", "A", "U", "F", "F">>,
      <<"C", "A", "R">>, <<"c", "a", "r">> }

KeyTxnTypes == {FAUF, <<"C", "A", "R">>}

Metadata(type, records, demographics) ==
    [transaction |-> [type |-> type],
     demographics |-> demographics,
     fingerprint_records |-> records]

\* a dict without the keys in absent
Without(d, absent) == [k \in DOMAIN d \ absent |-> d[k]]

\* result["validation"] = {} until validate_eft has returned, server.py:43
NoValidation == EmptyDict

InitMetadata ==
    \/ \E P \in PresentSets, d \in {FullDemo, NoWeight}, t \in KeyTxnTypes :
          metadata = Metadata(t, RecordsOf(P), d)
    \/ \E P \in KeyPresentSets, d \in DemoDicts, t \in TxnTypes :
          metadata = Metadata(t, RecordsOf(P), d)
    \* a position reported twice: both records are kept
    \/ \E P \in KeyPresentSets \ {{}}, q \in Positions :
          metadata = Metadata(FAUF, RecordsOf(P) \o <<FingerprintRecord(q)>>,
                              FullDemo)
    \* keys of the metadata that are not there at all
    \/ \E P \in KeyPresentSets, d \in KeyDemoDicts,
          absent \in SUBSET {"transaction", "demographics", "fingerprint_records"} :
          metadata = Without(Metadata(FAUF, RecordsOf(P), d), absent)
    \/ \E P \in KeyPresentSets, d \in KeyDemoDicts :
          metadata = [transaction |-> EmptyDict, demographics |-> d,
                      fingerprint_records |-> RecordsOf(P)]

\* the directory main() changes to before serving, server.py:603
ServerDir == "server"

\* no extraction, no concurrent calls and no parse under way
NoImages ==
    /\ tmp_files = <<>>
    /\ next_file = 1
    /\ images = <<>>
    /\ cwd = ServerDir
    /\ dir_files = EmptyDict
    /\ call = <<>>
    /\ call_pc = <<>>
    /\ output = <<>>
    /\ next_line = 1

Init ==
    /\ EBTS_REQUIREMENTS = EbtsRequirementsSource
    /\ InitMetadata
    /\ validation = NoValidation
    /\ pc = "parsed"
    /\ NoImages

\* result["validation"] = validate_eft(result), server.py:149
Validate ==
    /\ pc = "parsed"
    /\ validation' = validate_eft(metadata)
    /\ pc' = "validated"
    /\ UNCHANGED <<EBTS_REQUIREMENTS, metadata, imageVars, callVars, parseVars>>

Next == Validate

Spec == Init /\ [][Next]_vars

\* ---------------------------------------------------------------- any policy
\* validate_eft reads its options from the table; the loop does not depend on
\* the three options of FAUF.  SpecPolicy runs it on every small option list.

MaxOptions == 3          \* options of a generated policy

PolicyPositions == {1, 2, 3}
PolicyPresentSets == SUBSET ({0} \cup PolicyPositions)

OptionOf(i, required) ==
    [name |-> "Option " \o ToString(i), required |-> SortedSeq(required)]

OptionLists ==
    UNION {{[i \in 1..n |-> OptionOf(i, f[i])] :
               f \in [1..n -> SUBSET PolicyPositions]} : n \in 0..MaxOptions}

PolicyDemographics == {<<>>, <<"name", "dob">>}

PolicyTables ==
    {[k \in {FAUF} |-> [required_demographics |-> rd, fingerprint_options |-> o]] :
        rd \in PolicyDemographics, o \in OptionLists}

PolicyDemoDicts ==
    {EmptyDict, [f \in {"name"} |-> "x"], [f \in {"name", "dob"} |-> "x"],
     [f \in {"name", "dob"} |-> IF f = "name" THEN "" ELSE "x"]}

InitPolicy ==
    /\ \/ /\ EBTS_REQUIREMENTS \in PolicyTables
          /\ \E P \in PolicyPresentSets, d \in PolicyDemoDicts :
                metadata = Metadata(FAUF, RecordsOf(P), d)
       \/ /\ EBTS_REQUIREMENTS = EbtsRequirementsSource
          /\ \E P \in KeyPresentSets, d \in KeyDemoDicts :
                metadata = Metadata(FAUF, RecordsOf(P), d)
    /\ validation = NoValidation
    /\ pc = "parsed"
    /\ NoImages

SpecPolicy == InitPolicy /\ [][Next]_vars

\* ---------------------------------------------------------------- claims
\* What the claims speak of, read off the state without validate_eft's helpers.

Validated == pc = "validated"

TheOptions == EBTS_REQUIREMENTS[FAUF].fingerprint_options

TheRequiredDemographics == EBTS_REQUIREMENTS[FAUF].required_demographics

ThePresent ==
    IF "fingerprint_records" \in DOMAIN metadata
    THEN {metadata.fingerprint_records[i].position :
             i \in DOMAIN metadata.fingerprint_records}
    ELSE {}

Req(i) == {TheOptions[i].required[j] : j \in DOMAIN TheOptions[i].required}

Satisfied == {i \in DOMAIN TheOptions : Req(i) \subseteq ThePresent}

MissingCount(i) == Cardinality(Req(i) \ ThePresent)

DemographicPresent(f) ==
    /\ "demographics" \in DOMAIN metadata
    /\ f \in DOMAIN metadata.demographics
    /\ metadata.demographics[f] # ""

AllDemographicsPresent ==
    \A j \in DOMAIN TheRequiredDemographics :
        DemographicPresent(TheRequiredDemographics[j])

MissingPositions ==
    [i \in DOMAIN validation.fingerprints_missing |->
        validation.fingerprints_missing[i].position]

\* C1: the option named by match_type is the first option, in list order,
\* whose required positions are all present; unsatisfied options before it
\* do not stop it, satisfied options after it are not reported.
C1_FirstSatisfiedOptionMatches ==
    /\ (Validated /\ Satisfied # {}) =>
           validation.match_type = TheOptions[Min(Satisfied)].name
    /\ (Validated /\ EBTS_REQUIREMENTS = EbtsRequirementsSource
           /\ ThePresent = {13, 14, 15}) =>
           validation.match_type = "Flat/Slap Impressions Only"

\* C1 witness: the first option is unsatisfied, two later ones are satisfied,
\* and the earlier of the two is the match
C1_Witness ==
    /\ Validated
    /\ Cardinality(Satisfied) >= 2
    /\ 1 \notin Satisfied
    /\ validation.match_type = TheOptions[Min(Satisfied)].name

\* C2: is_valid is true exactly when some option has all its required
\* positions present and every required demographic is present and non-empty.
C2_ValidIffOptionAndDemographics ==
    Validated =>
        (validation.is_valid = TRUE <=> (Satisfied # {} /\ AllDemographicsPresent))

\* C2 witness: an option fully matched, a required demographic is missing,
\* and the report is invalid
C2_Witness ==
    /\ Validated
    /\ Satisfied # {}
    /\ ~AllDemographicsPresent
    /\ validation.is_valid = FALSE
    /\ validation.match_type = TheOptions[Min(Satisfied)].name

\* the first option, in list order, with the fewest missing positions
Closest ==
    Min({i \in DOMAIN TheOptions :
            \A j \in DOMAIN TheOptions : MissingCount(i) <= MissingCount(j)})

\* C4: when no option is satisfied, the reported option is the one with the
\* fewest missing positions, the earliest such on a tie; fingerprints_missing
\* is its required-minus-present positions in ascending order, and match_type
\* names it as incomplete.
C4_ClosestOptionReported ==
    (Validated /\ Satisfied = {} /\ TheOptions # <<>>) =>
        /\ validation.match_type =
               "Incomplete - closest to " \o TheOptions[Closest].name
        /\ Range(MissingPositions) = Req(Closest) \ ThePresent
        /\ Len(MissingPositions) = MissingCount(Closest)
        /\ \A i, j \in DOMAIN MissingPositions :
               i < j => MissingPositions[i] < MissingPositions[j]
        /\ \A i \in DOMAIN MissingPositions :
               validation.fingerprints_missing[i].name =
                   FINGER_POSITION_NAMES[MissingPositions[i]]

\* C4 witness: two different options tie on the fewest missing positions, with
\* more than one position missing, and the earlier one is reported
C4_Witness ==
    /\ Validated
    /\ Satisfied = {}
    /\ \E j \in DOMAIN TheOptions :
          /\ j > Closest
          /\ MissingCount(j) = MissingCount(Closest)
          /\ Req(j) # Req(Closest)
    /\ MissingCount(Closest) >= 2
    /\ validation.match_type =
           "Incomplete - closest to " \o TheOptions[Closest].name
    /\ Len(validation.fingerprints_missing) = MissingCount(Closest)

\* ---------------------------------------------------------------- claims, FAUF

FullSet == (1..10) \cup {13, 14, 15}

\* C3 as the spec words it: the complete set selects "Complete FD-258" and is
\* valid; without position 15 the report is invalid and misses exactly 15.
C3_Original ==
    (Validated /\ AllDemographicsPresent) =>
        /\ ThePresent = FullSet =>
              /\ validation.is_valid = TRUE
              /\ validation.match_type = OptComplete.name
        /\ ThePresent = FullSet \ {15} =>
              /\ validation.is_valid = FALSE
              /\ validation.fingerprints_missing =
                     <<[position |-> 15, name |-> "Plain Thumbs (Both)"]>>

\* C3, amended: the complete set selects "Complete FD-258" and is valid;
\* without position 15 the ten rolled prints still satisfy "Rolled Prints
\* Only", so the report stays valid, names that option and misses nothing.
C3_CompleteSetAndWithout15 ==
    (Validated /\ AllDemographicsPresent) =>
        /\ ThePresent = FullSet =>
              /\ validation.is_valid = TRUE
              /\ validation.match_type = OptComplete.name
        /\ ThePresent = FullSet \ {15} =>
              /\ validation.is_valid = TRUE
              /\ validation.match_type = OptRolled.name
              /\ validation.fingerprints_missing = <<>>

\* C3 witness: the complete set without position 15, validated
C3_Witness ==
    /\ Validated
    /\ AllDemographicsPresent
    /\ ThePresent = FullSet \ {15}
    /\ validation.is_valid = TRUE
    /\ validation.match_type = "Rolled Prints Only"

TheExtras == ThePresent \ UNION {Req(i) : i \in DOMAIN TheOptions}

\* the metadata without the records of position e
WithoutPosition(e) ==
    [metadata EXCEPT !.fingerprint_records =
        SelectSeq(@, LAMBDA r : r.position # e)]

WarningsFor(e) ==
    {i \in DOMAIN validation.warnings : validation.warnings[i].position = e}

\* C5: a present position that no option requires gives one warning, is never
\* listed as missing, and leaves is_valid, match_type and fingerprints_missing
\* as they are for the same input without it.
C5_ExtraPositionOnlyWarns ==
    Validated =>
        \A e \in TheExtras :
            /\ Cardinality(WarningsFor(e)) = 1
            /\ e \notin Range(MissingPositions)
            /\ LET without == validate_eft(WithoutPosition(e)) IN
                  /\ validation.is_valid = without.is_valid
                  /\ validation.match_type = without.match_type
                  /\ validation.fingerprints_missing = without.fingerprints_missing

\* C5 witness: position 11 beside the ten rolled prints, reported as one
\* warning in a valid report
C5_Witness ==
    /\ Validated
    /\ ThePresent = (1..10) \cup {11}
    /\ validation.is_valid = TRUE
    /\ validation.warnings =
           <<[text |-> "Extra fingerprint at position", position |-> 11,
              name |-> "Plain Right Thumb"]>>

\* the transaction type as the file gave it; absent reads as the empty string
TheRawType ==
    IF "transaction" \in DOMAIN metadata /\ "type" \in DOMAIN metadata.transaction
    THEN metadata.transaction.type ELSE <<>>

\* the same metadata with transaction type "FAUF"
WithTypeFAUF ==
    [k \in DOMAIN metadata \cup {"transaction"} |->
        IF k = "transaction" THEN [type |-> FAUF] ELSE metadata[k]]

\* C6: a transaction type that is no key of the policy table, the empty and the
\* absent type included, is validated as "FAUF" is: is_valid, match_type,
\* fingerprints_missing, demographics_missing and warnings are the same, and
\* is_valid is a boolean.
C6_UnknownTypeFallsBackToFAUF ==
    (Validated /\ TheRawType \notin DOMAIN EBTS_REQUIREMENTS) =>
        LET fauf == validate_eft(WithTypeFAUF) IN
           /\ validation.is_valid \in BOOLEAN
           /\ validation.is_valid = fauf.is_valid
           /\ validation.match_type = fauf.match_type
           /\ validation.fingerprints_missing = fauf.fingerprints_missing
           /\ validation.demographics_missing = fauf.demographics_missing
           /\ validation.warnings = fauf.warnings

\* C6 witness: type "CAR", which upper() leaves outside the table, with the
\* complete set and all demographics: valid under the FAUF policy
C6_Witness ==
    /\ Validated
    /\ TheRawType = <<"C", "A", "R">>
    /\ validation.transaction_type = <<"C", "A", "R">>
    /\ validation.is_valid = TRUE
    /\ validation.match_type = OptComplete.name

NoData ==
    /\ TheRawType = <<>>
    /\ ThePresent = {}
    /\ \A f \in DemoFields : ~DemographicPresent(f)

ReportKeys ==
    {"is_valid", "transaction_type", "fingerprints_present",
     "fingerprints_missing", "demographics_present", "demographics_missing",
     "match_type", "messages", "warnings"}

\* C7: whatever part of the metadata is absent, a report is returned; with no
\* type, no records and no demographics it is invalid, lists every required
\* demographic as missing and every required position of the reported option
\* as missing.
C7_NoDataGivesIncompleteReport ==
    Validated =>
        /\ DOMAIN validation = ReportKeys
        /\ validation.is_valid \in BOOLEAN
        /\ NoData =>
              /\ validation.is_valid = FALSE
              /\ validation.demographics_missing = TheRequiredDemographics
              /\ validation.demographics_present = <<>>
              /\ Range(MissingPositions) = Req(Closest)
              /\ Len(MissingPositions) = Cardinality(Req(Closest))
              /\ validation.match_type =
                     "Incomplete - closest to " \o TheOptions[Closest].name

\* C7 witness: a metadata dict with no key at all, validated
C7_Witness ==
    /\ Validated
    /\ DOMAIN metadata = {}
    /\ validation.is_valid = FALSE
    /\ Len(validation.demographics_missing) = 8
    /\ MissingPositions = <<13, 14, 15>>

OptionTexts == {"File contains valid {name}", "Missing {n} fingerprint(s) for {name}"}
DemographicTexts ==
    {"Missing {n} demographic field(s)", "All required demographic fields present"}

\* C8: messages is the verdict line, agreeing with is_valid, then one option
\* line, then one demographics line.
C8_MessagesVerdictFirst ==
    Validated =>
        /\ Len(validation.messages) = 3
        /\ validation.messages[1].text =
               (IF validation.is_valid THEN "FILE IS VALID" ELSE "FILE IS INCOMPLETE")
        /\ validation.messages[2].text \in OptionTexts
        /\ validation.messages[3].text \in DemographicTexts

\* C8 witness: an option matched but a demographic is missing: the verdict
\* line says incomplete, before the option line that says valid
C8_Witness ==
    /\ Validated
    /\ validation.is_valid = FALSE
    /\ validation.messages[1].text = "FILE IS INCOMPLETE"
    /\ validation.messages[2].text = "File contains valid {name}"
    /\ validation.messages[3].text = "Missing {n} demographic field(s)"

\* ---------------------------------------------------------------- images
\* extract_fingerprint_images, server.py:322-382: the loop over the temp
\* files an2ktool wrote, each classified by its first bytes.

JP2_SIGNATURE == <<0, 0, 0, 12, 106, 80, 32, 32, 13, 10, 135, 10>>
WSQ_SIGNATURE == <<255, 160>>
JPEG_SIGNATURE == <<255, 216, 255>>

\* s[:n]
Take(s, n) == SubSeq(s, 1, IF n < Len(s) THEN n ELSE Len(s))

\* FormatOf with the WSQ test on the first byte only
FormatOfOneByteWSQ(header) ==
    IF Take(header, 12) = JP2_SIGNATURE THEN "JPEG 2000"
    ELSE IF Take(header, 1) = Take(WSQ_SIGNATURE, 1) THEN "WSQ (raw)"
    ELSE IF Take(header, 3) = JPEG_SIGNATURE THEN "JPEG"
    ELSE NoneVal

\* the if/elif chain of server.py:333, 354, 373 on header = f.read(12)
FormatOf(header) ==
    IF Take(header, 12) = JP2_SIGNATURE THEN "JPEG 2000"
    ELSE IF Take(header, 2) = WSQ_SIGNATURE THEN "WSQ (raw)"
    ELSE IF Take(header, 3) = JPEG_SIGNATURE THEN "JPEG"
    ELSE NoneVal

MaxTmpFiles == 2         \* temp files of one extraction

Signatures == {JP2_SIGNATURE, WSQ_SIGNATURE, JPEG_SIGNATURE}

\* every prefix of every signature, alone and followed by a byte (01) that
\* occurs in no signature
SignaturePrefixes == {Take(sig, k) : sig \in Signatures, k \in 0..12}

Payloads ==
    SignaturePrefixes \cup {p \o <<1>> : p \in SignaturePrefixes}

InitImages ==
    /\ EBTS_REQUIREMENTS = EbtsRequirementsSource
    /\ metadata = EmptyDict
    /\ validation = NoValidation
    /\ pc = "validated"
    /\ tmp_files \in UNION {[1..n -> Payloads] : n \in 0..MaxTmpFiles}
    /\ next_file = 1
    /\ images = <<>>
    /\ cwd = ServerDir
    /\ dir_files = EmptyDict
    /\ call = <<>>
    /\ call_pc = <<>>
    /\ output = <<>>
    /\ next_line = 1

\* One pass of the loop body, server.py:325-382.  The JPEG 2000 and WSQ
\* branches append only if the decoder left its output file (decoded); the
\* JPEG branch always appends; any other header appends nothing.
ProcessTmpFile ==
    /\ next_file <= Len(tmp_files)
    /\ LET header == Take(tmp_files[next_file], 12)
           format == FormatOf(header)
           entry  == [format |-> format, original |-> next_file]
       IN \E decoded \in BOOLEAN :
             images' = IF format = "JPEG" \/ (format # NoneVal /\ decoded)
                       THEN Append(images, entry) ELSE images
    /\ next_file' = next_file + 1
    /\ UNCHANGED <<parseVars, validationVars, tmp_files, callVars>>

NextImages == ProcessTmpFile

SpecImages == InitImages /\ [][NextImages]_vars

StartsWith(payload, sig) ==
    /\ Len(payload) >= Len(sig)
    /\ \A i \in DOMAIN sig : payload[i] = sig[i]

EntriesOf(k) == {i \in DOMAIN images : images[i].original = k}

FormatsOf(k) == {images[i].format : i \in EntriesOf(k)}

\* C9: of the files processed so far, one that starts with the JP2 signature
\* box is listed only as JPEG 2000, one that starts with FF A0 only as WSQ,
\* one that starts with FF D8 FF as JPEG, none is listed twice, and one with
\* any other start, shorter than a signature included, is not listed.
C9_ClassificationBySignature ==
    \A k \in 1..(next_file - 1) :
        /\ Cardinality(EntriesOf(k)) <= 1
        /\ StartsWith(tmp_files[k], JP2_SIGNATURE) => FormatsOf(k) \subseteq {"JPEG 2000"}
        /\ StartsWith(tmp_files[k], WSQ_SIGNATURE) => FormatsOf(k) \subseteq {"WSQ (raw)"}
        /\ StartsWith(tmp_files[k], JPEG_SIGNATURE) => FormatsOf(k) = {"JPEG"}
        /\ (\A sig \in Signatures : ~StartsWith(tmp_files[k], sig)) => FormatsOf(k) = {}

\* C9 witness: a JPEG and a payload one byte short of the JP2 signature have
\* been processed; the first is listed as JPEG, the second is not listed
C9_Witness ==
    /\ next_file = 3
    /\ tmp_files[1] = <<255, 216, 255, 1>>
    /\ tmp_files[2] = Take(JP2_SIGNATURE, 11)
    /\ images = <<[format |-> "JPEG", original |-> 1]>>

\* ---------------------------------------------------------------- two calls
\* Two calls of parse_eft_metadata / extract_fingerprint_images running in
\* one process, each on its own file and its own temp directory.  A step is
\* one statement that reads or writes the working directory or a directory's
\* temp files; the calls interleave between steps.

MaxImageFields == 2      \* image fields of one EFT file (fld_1.tmp, fld_2.tmp, ...)

Calls == {1, 2}

TempDir(c) == IF c = 1 THEN "temp_1" ELSE "temp_2"

Dirs == {ServerDir, TempDir(1), TempDir(2)}

\* the statements of each function that touch the working directory or the
\* temp files, in program order
Statements(function) ==
    IF function = "extract_fingerprint_images"
    THEN <<"clean", "getcwd", "chdir", "an2ktool", "glob", "restore", "done">>
    ELSE <<"getcwd", "chdir", "clean", "an2ktool", "restore", "done">>

At(c, statement) == Statements(call[c].function)[call_pc[c]] = statement

Advance(c) == call_pc' = [call_pc EXCEPT ![c] = @ + 1]

\* the temp files an2ktool writes for the file of call c: one per image field
ToolFiles(c) == [k \in 1..call[c].image_fields |-> c]

\* a dict updated with another: d.update(e)
Update(d, e) ==
    [k \in DOMAIN d \cup DOMAIN e |-> IF k \in DOMAIN e THEN e[k] ELSE d[k]]

\* what the call returns when it runs with no other call: the parsed output
\* of its own file, or the images of its own file's fields
ResultAlone(c) ==
    IF call[c].function = "extract_fingerprint_images"
    THEN ToolFiles(c)
    ELSE [parsed_file |-> c]

InitCalls ==
    /\ EBTS_REQUIREMENTS = EbtsRequirementsSource
    /\ metadata = EmptyDict
    /\ validation = NoValidation
    /\ pc = "validated"
    /\ tmp_files = <<>>
    /\ next_file = 1
    /\ images = <<>>
    /\ cwd = ServerDir
    /\ dir_files = [d \in Dirs |-> <<>>]
    /\ call \in [Calls ->
          [function : {"parse_eft_metadata", "extract_fingerprint_images"},
           image_fields : 0..MaxImageFields,
           original_dir : {NoneVal},
           result : {NoneVal}]]
    /\ call_pc = [c \in Calls |-> 1]
    /\ output = <<>>
    /\ next_line = 1

\* unlink every fld_*.tmp of the call's own directory, server.py:52-56, 298-302
Clean(c) ==
    /\ At(c, "clean")
    /\ dir_files' = [dir_files EXCEPT ![TempDir(c)] = <<>>]
    /\ Advance(c)
    /\ UNCHANGED <<parseVars, validationVars, imageVars, cwd, call>>

\* original_dir = os.getcwd(), server.py:47, 310
GetCwd(c) ==
    /\ At(c, "getcwd")
    /\ call' = [call EXCEPT ![c].original_dir = cwd]
    /\ Advance(c)
    /\ UNCHANGED <<parseVars, validationVars, imageVars, cwd, dir_files>>

\* os.chdir(temp_dir), server.py:50, 313
Chdir(c) ==
    /\ At(c, "chdir")
    /\ cwd' = TempDir(c)
    /\ Advance(c)
    /\ UNCHANGED <<parseVars, validationVars, imageVars, dir_files, call>>

\* subprocess.run([AN2KTOOL, "-print", "all", eft_path]), server.py:58, 316:
\* the tool starts in the process's working directory and writes its temp
\* files there; parse_eft_metadata takes its result from the tool's output
RunAn2ktool(c) ==
    /\ At(c, "an2ktool")
    /\ dir_files' = [dir_files EXCEPT ![cwd] = Update(@, ToolFiles(c))]
    /\ call' = IF call[c].function = "parse_eft_metadata"
               THEN [call EXCEPT ![c].result = [parsed_file |-> c]]
               ELSE call
    /\ Advance(c)
    /\ UNCHANGED <<parseVars, validationVars, imageVars, cwd>>

\* tmp_files = sorted(Path(output_dir).glob("fld_*.tmp")) and the loop over
\* them, server.py:323-382
Glob(c) ==
    /\ At(c, "glob")
    /\ call' = [call EXCEPT ![c].result = dir_files[TempDir(c)]]
    /\ Advance(c)
    /\ UNCHANGED <<parseVars, validationVars, imageVars, cwd, dir_files>>

\* finally: os.chdir(original_dir), server.py:144-146, 384-385
Restore(c) ==
    /\ At(c, "restore")
    /\ cwd' = call[c].original_dir
    /\ Advance(c)
    /\ UNCHANGED <<parseVars, validationVars, imageVars, dir_files, call>>

NextCalls ==
    \E c \in Calls :
        \/ Clean(c)
        \/ GetCwd(c)
        \/ Chdir(c)
        \/ RunAn2ktool(c)
        \/ Glob(c)
        \/ Restore(c)

SpecCalls == InitCalls /\ [][NextCalls]_vars

\* C10: two calls on different files and temp directories do not affect each
\* other: an2ktool runs in the call's own temp directory, a call that is done
\* returned what it returns when run alone, and when both are done the working
\* directory is the one the process started in.
C10_CallsDoNotInterfere ==
    \A c \in Calls :
        /\ At(c, "an2ktool") => cwd = TempDir(c)
        /\ At(c, "done") => call[c].result = ResultAlone(c)
        /\ (\A d \in Calls : At(d, "done")) => cwd = ServerDir

\* ---------------------------------------------------------------- parse_eft_metadata
\* The loop over the lines of an2ktool's output, server.py:67-140.  A line
\* the regular expression of line 73 matches is given by its groups: indices,
\* the two parts of the tag, and the value.

\* characters str.strip() removes: the blank and the four separators, which
\* Python counts as whitespace
Whitespace == {" ", "FS", "GS", "RS", "US"}

\* the characters of rstrip('\x1f\x1e\x1d\x1c')
Separators == {"US", "RS", "GS", "FS"}

RECURSIVE LStrip(_, _)
LStrip(s, chars) ==
    IF s # <<>> /\ Head(s) \in chars THEN LStrip(Tail(s), chars) ELSE s

RECURSIVE RStrip(_, _)
RStrip(s, chars) ==
    IF s # <<>> /\ s[Len(s)] \in chars
    THEN RStrip(SubSeq(s, 1, Len(s) - 1), chars) ELSE s

\* value.strip().rstrip('\x1f\x1e\x1d\x1c'), server.py:77
StripValue(value) ==
    RStrip(RStrip(LStrip(value, Whitespace), Whitespace), Separators)

DigitChars == <<"0", "1", "2", "3", "4", "5", "6", "7", "8", "9">>

IsDigit(c) == \E d \in DOMAIN DigitChars : DigitChars[d] = c

DigitValue(c) == (CHOOSE d \in DOMAIN DigitChars : DigitChars[d] = c) - 1

\* the digits of an int() argument: surrounding whitespace and one sign removed
IntDigits(s) ==
    LET t == RStrip(LStrip(s, Whitespace), Whitespace)
    IN  IF t # <<>> /\ Head(t) \in {"+", "-"} THEN Tail(t) ELSE t

\* int(s) returns: s is an optional sign and one or more decimal digits,
\* possibly between whitespace; otherwise int(s) raises ValueError
IsInt(s) == IntDigits(s) # <<>> /\ \A i \in DOMAIN IntDigits(s) : IsDigit(IntDigits(s)[i])

RECURSIVE DigitsValue(_)
DigitsValue(ds) ==
    IF ds = <<>> THEN 0
    ELSE 10 * DigitsValue(SubSeq(ds, 1, Len(ds) - 1)) + DigitValue(ds[Len(ds)])

\* int(s), for s with IsInt(s)
IntOf(s) ==
    LET t == LStrip(s, Whitespace)
    IN  IF t # <<>> /\ Head(t) = "-" THEN 0 - DigitsValue(IntDigits(s))
        ELSE DigitsValue(IntDigits(s))

\* str(n) of an integer, as the f-string of format_height renders it
RECURSIVE IntToChars(_)
IntToChars(n) ==
    IF n < 0 THEN <<"-">> \o IntToChars(0 - n)
    ELSE IF n < 10 THEN <<DigitChars[n + 1]>>
    ELSE IntToChars(n \div 10) \o <<DigitChars[(n % 10) + 1]>>

\* format_date, server.py:390-394
format_date(date_str) ==
    IF Len(date_str) >= 8
    THEN SubSeq(date_str, 1, 4) \o <<"-">> \o SubSeq(date_str, 5, 6)
         \o <<"-">> \o SubSeq(date_str, 7, 8)
    ELSE date_str

\* format_height raises: int(height_str[1:]) on a value of three or more
\* characters whose tail is no integer, server.py:399-401
format_height_raises(height_str) ==
    Len(height_str) >= 3 /\ ~IsInt(Tail(height_str))

\* format_height, server.py:397-403, where it returns
format_height(height_str) ==
    IF Len(height_str) >= 3
    THEN <<Head(height_str), "'">> \o IntToChars(IntOf(Tail(height_str))) \o <<"\"">>
    ELSE height_str

\* {"M": "Male", "F": "Female"}.get(value, value), server.py:108
decode_sex(code) ==
    CASE code = <<"M">> -> <<"M", "a", "l", "e">>
      [] code = <<"F">> -> <<"F", "e", "m", "a", "l", "e">>
      [] OTHER -> code

\* decode_race, server.py:406-411
decode_race(code) ==
    CASE code = <<"A">> -> <<"A", "s", "i", "a", "n">>
      [] code = <<"B">> -> <<"B", "l", "a", "c", "k">>
      [] code = <<"I">> -> <<"A", "m", "e", "r", "i", "c", "a", "n", " ", "I", "n", "d", "i", "a", "n">>
      [] code = <<"W">> -> <<"W", "h", "i", "t", "e">>
      [] code = <<"P">> -> <<"P", "a", "c", "i", "f", "i", "c", " ", "I", "s", "l", "a", "n", "d", "e", "r">>
      [] code = <<"H">> -> <<"H", "i", "s", "p", "a", "n", "i", "c">>
      [] code = <<"U">> -> <<"U", "n", "k", "n", "o", "w", "n">>
      [] OTHER -> code

\* decode_eye_color, server.py:414-419
decode_eye_color(code) ==
    CASE code = <<"B", "L", "K">> -> <<"B", "l", "a", "c", "k">>
      [] code = <<"B", "L", "U">> -> <<"B", "l", "u", "e">>
      [] code = <<"B", "R", "O">> -> <<"B", "r", "o", "w", "n">>
      [] code = <<"G", "R", "Y">> -> <<"G", "r", "a", "y">>
      [] code = <<"G", "R", "N">> -> <<"G", "r", "e", "e", "n">>
      [] code = <<"H", "A", "Z">> -> <<"H", "a", "z", "e", "l">>
      [] code = <<"M", "A", "R">> -> <<"M", "a", "r", "o", "o", "n">>
      [] code = <<"P", "N", "K">> -> <<"P", "i", "n", "k">>
      [] OTHER -> code

\* decode_hair_color, server.py:422-427
decode_hair_color(code) ==
    CASE code = <<"B", "L", "K">> -> <<"B", "l", "a", "c", "k">>
      [] code = <<"B", "L", "N">> -> <<"B", "l", "o", "n", "d", "e">>
      [] code = <<"B", "R", "O">> -> <<"B", "r", "o", "w", "n">>
      [] code = <<"G", "R", "Y">> -> <<"G", "r", "a", "y">>
      [] code = <<"R", "E", "D">> -> <<"R", "e", "d">>
      [] code = <<"S", "D", "Y">> -> <<"S", "a", "n", "d", "y">>
      [] code = <<"W", "H", "I">> -> <<"W", "h", "i", "t", "e">>
      [] code = <<"B", "A", "L">> -> <<"B", "a", "l", "d">>
      [] OTHER -> code

\* result as parse_eft_metadata initialises it, server.py:37-44
InitialResult ==
    [transaction |-> EmptyDict,
     demographics |-> EmptyDict,
     records |-> <<>>,
     raw_fields |-> <<>>,
     fingerprint_records |-> <<>>,
     validation |-> EmptyDict]

\* d[k] = v
SetItem(d, k, v) == [x \in DOMAIN d \cup {k} |-> IF x = k THEN v ELSE d[x]]

\* result[section][key] = v
SetIn(result, section, key, v) ==
    SetItem(result, section, SetItem(result[section], key, v))

\* the key a Type-1 field is stored under, server.py:88-98
TransactionKey(field_num) ==
    CASE field_num = "004" -> "type"
      [] field_num = "005" -> "date"
      [] field_num = "007" -> "dest_agency"
      [] field_num = "008" -> "orig_agency"
      [] field_num = "009" -> "tcn"
      [] OTHER -> NoneVal

\* the key a Type-2 field is stored under, server.py:100-124
DemographicsKey(field_num) ==
    CASE field_num = "018" -> "name"
      [] field_num = "020" -> "pob"
      [] field_num = "022" -> "dob"
      [] field_num = "024" -> "sex"
      [] field_num = "025" -> "race"
      [] field_num = "027" -> "height"
      [] field_num = "029" -> "weight"
      [] field_num = "031" -> "eyes"
      [] field_num = "032" -> "hair"
      [] field_num = "037" -> "reason"
      [] field_num = "038" -> "date_printed"
      [] field_num = "041" -> "address"
      [] OTHER -> NoneVal

\* the value a Type-1 or Type-2 field stores, where its decoder returns
Decoded(record_type, field_num, value) ==
    IF record_type = "1"
    THEN (IF field_num = "005" THEN format_date(value) ELSE value)
    ELSE CASE field_num \in {"022", "038"} -> format_date(value)
           [] field_num = "024" -> decode_sex(value)
           [] field_num = "025" -> decode_race(value)
           [] field_num = "027" -> format_height(value)
           [] field_num = "029" -> value \o <<" ", "l", "b", "s">>
           [] field_num = "031" -> decode_eye_color(value)
           [] field_num = "032" -> decode_hair_color(value)
           [] OTHER -> value

\* not result.get("compression"), server.py:129
CompressionUnset(result) ==
    "compression" \notin DOMAIN result \/ Len(result.compression) = 0

\* One pass of the loop body, server.py:68-140, on a line the regular
\* expression matches: the raw_fields entry, then the field's handler.
\* raised: the handler raised, which leaves the loop for the except clause
\* of line 142 (only format_height can; int(value) of line 134 is caught at
\* line 139).
HandleField(result, line) ==
    LET value == StripValue(line.value)
        record_type == line.record_type
        field_num == line.field_num
        logged == SetItem(result, "raw_fields",
                     Append(result.raw_fields,
                         [indices |-> line.indices,
                          tag |-> <<record_type, field_num>>,
                          value |-> IF Len(value) > 200
                                    THEN SubSeq(value, 1, 200) ELSE value]))
    IN  IF record_type = "1" /\ TransactionKey(field_num) # NoneVal
        THEN [raised |-> FALSE,
              result |-> SetIn(logged, "transaction", TransactionKey(field_num),
                               Decoded(record_type, field_num, value))]
        ELSE IF record_type = "2" /\ field_num = "027" /\ format_height_raises(value)
        THEN [raised |-> TRUE,
              result |-> SetItem(logged, "error", "invalid literal for int()")]
        ELSE IF record_type = "2" /\ DemographicsKey(field_num) # NoneVal
        THEN [raised |-> FALSE,
              result |-> SetIn(logged, "demographics", DemographicsKey(field_num),
                               Decoded(record_type, field_num, value))]
        ELSE IF record_type = "14" /\ field_num = "011" /\ CompressionUnset(logged)
        THEN [raised |-> FALSE, result |-> SetItem(logged, "compression", value)]
        ELSE IF record_type = "14" /\ field_num = "013" /\ IsInt(value)
        THEN [raised |-> FALSE,
              result |-> SetItem(logged, "fingerprint_records",
                             Append(logged.fingerprint_records,
                                    FingerprintRecord(IntOf(value))))]
        ELSE [raised |-> FALSE, result |-> logged]

\* One pass of the loop body on any line: a blank line or one the regular
\* expression does not match changes nothing, server.py:68-74
HandleLine(result, line) ==
    IF line.matched THEN HandleField(result, line)
    ELSE [raised |-> FALSE, result |-> result]

MaxLines == 3            \* lines of an2ktool's output

Field(record_type, field_num, value) ==
    [matched |-> TRUE, indices |-> "1.1.1.1", record_type |-> record_type,
     field_num |-> field_num, value |-> value]

\* a line the regular expression does not match
OtherLine ==
    [matched |-> FALSE, indices |-> "", record_type |-> "", field_num |-> "",
     value |-> <<>>]

SampleLines ==
    { OtherLine,
      Field("1", "002", <<"0", "4">>),
      Field("1", "004", <<"f", "a", "u", "f">>),
      Field("2", "018", <<"D", "O", "E">>),
      Field("2", "022", <<"1", "9", "9", "0", "0", "6", "1", "5">>),
      Field("2", "024", <<"M">>),
      Field("2", "027", <<"5", "1", "1">>),
      Field("2", "027", <<"6", "0", "2">>),
      Field("2", "027", <<"5", "x", "1">>),
      Field("2", "027", <<"6", "0">>),
      Field("2", "029", <<"1", "5", "0">>),
      Field("14", "011", <<>>),
      Field("14", "011", <<"W", "S", "Q">>),
      Field("14", "011", <<"J", "P", "2">>),
      Field("14", "013", <<"1">>),
      Field("14", "013", <<"1", "3", "GS">>),
      Field("14", "013", <<"x">>),
      Field("14", "013", <<>>) }

InitParse ==
    /\ EBTS_REQUIREMENTS = EbtsRequirementsSource
    /\ metadata = InitialResult
    /\ validation = NoValidation
    /\ pc = "parsing"
    /\ tmp_files = <<>>
    /\ next_file = 1
    /\ images = <<>>
    /\ cwd = ServerDir
    /\ dir_files = EmptyDict
    /\ call = <<>>
    /\ call_pc = <<>>
    /\ output \in UNION {[1..n -> SampleLines] : n \in 1..MaxLines}
    /\ next_line = 1

\* One iteration of "for line in output.split('\n')", server.py:67-140; the
\* loop ends after the last line or when the handler raised (server.py:142)
ParseLine ==
    /\ pc = "parsing"
    /\ next_line <= Len(output)
    /\ LET h == HandleLine(metadata, output[next_line]) IN
          /\ metadata' = h.result
          /\ pc' = IF h.raised \/ next_line = Len(output)
                   THEN "parsed" ELSE "parsing"
    /\ next_line' = next_line + 1
    /\ UNCHANGED <<EBTS_REQUIREMENTS, validation, imageVars, callVars, output>>

NextParse == ParseLine \/ Validate

SpecParse == InitParse /\ [][NextParse]_vars

\* ---------------------------------------------------------------- claims, parse

\* the loop of server.py:67-140 run on lines from line i on
RECURSIVE ParseFrom(_, _, _)
ParseFrom(result, lines, i) ==
    IF i > Len(lines) THEN result
    ELSE LET h == HandleLine(result, lines[i]) IN
         IF h.raised THEN h.result ELSE ParseFrom(h.result, lines, i + 1)

RemoveAt(s, k) == SubSeq(s, 1, k - 1) \o SubSeq(s, k + 1, Len(s))

Sections(result) ==
    <<result.transaction, result.demographics, result.fingerprint_records>>

\* a Type-14 finger position that is no integer
BadPosition(line) ==
    /\ line.matched
    /\ line.record_type = "14"
    /\ line.field_num = "013"
    /\ ~IsInt(StripValue(line.value))

\* a height of three or more characters whose inches are no integer
BadHeight(line) ==
    /\ line.matched
    /\ line.record_type = "2"
    /\ line.field_num = "027"
    /\ Len(StripValue(line.value)) >= 3
    /\ ~IsInt(Tail(StripValue(line.value)))

ParseEnded == output # <<>> /\ pc # "parsing"

\* C11: a field whose value its handler cannot parse (a non-integer finger
\* position, a height whose inches are no integer) is skipped and the fields
\* after it are still interpreted: transaction, demographics and
\* fingerprint_records are those of the same output without that field.
C11_UnparseableFieldIsSkipped ==
    ParseEnded =>
        \A k \in DOMAIN output :
            (BadPosition(output[k]) \/ BadHeight(output[k])) =>
                Sections(metadata) =
                    Sections(ParseFrom(InitialResult, RemoveAt(output, k), 1))

\* the Type-14 field 011 lines processed so far
CompressionSeen ==
    {k \in 1..(next_line - 1) :
        /\ output[k].matched
        /\ output[k].record_type = "14"
        /\ output[k].field_num = "011"}

\* C12: once a Type-14 field 011 has been processed, the recorded compression
\* is the value of the first one, whatever the later ones are.
C12_CompressionFirstSeenWins ==
    CompressionSeen # {} =>
        /\ "compression" \in DOMAIN metadata
        /\ metadata.compression = StripValue(output[Min(CompressionSeen)].value)

====
